---- MODULE Spec2Model ----
(***************************************************************************)
(* Model of the two maintenance scripts of JazzHarmonyQuiz:                *)
(*   update_xcode_paths.py  (the Path Rewriter)                            *)
(*   add_vm_files.py        (the Registrar)                                *)
(*                                                                         *)
(* A text is a sequence of tokens.  Every token is a literal piece of the  *)
(* project file; the keys, values, anchors and inserted records of the     *)
(* scripts are token sequences whose concatenation is the literal of the   *)
(* source.  The tokens are chosen so that a literal of the source occurs   *)
(* in the concatenated characters exactly where its token sequence occurs  *)
(* in the token sequence (no literal starts or ends inside a token).       *)
(***************************************************************************)
EXTENDS Integers, Sequences, FiniteSets, TLC

VARIABLES disk, log

vars == <<disk, log>>

(***************************************************************************)
(* Bounds of the explored inputs and runs.                                 *)
(***************************************************************************)
MaxItems == 3
MaxRegItems == 3
MaxRuns == 2

(***************************************************************************)
(* Python str operations on token sequences.                               *)
(***************************************************************************)
MatchAt(s, p, i) ==
    /\ i >= 1
    /\ i + Len(p) - 1 <= Len(s)
    /\ \A n \in 1..Len(p) : s[i + n - 1] = p[n]

\* old in content
Contains(s, p) == \E i \in 1..Len(s) : MatchAt(s, p, i)

RECURSIVE CountFrom(_, _, _)
CountFrom(s, p, i) ==
    IF i + Len(p) - 1 > Len(s) THEN 0
    ELSE IF MatchAt(s, p, i) THEN 1 + CountFrom(s, p, i + Len(p))
    ELSE CountFrom(s, p, i + 1)

\* content.count(old): non-overlapping occurrences, left to right
Count(s, p) == CountFrom(s, p, 1)

\* A replace that stops after the first occurrence: content.replace(old, new, 1).
RECURSIVE ReplaceFirstOnly(_, _, _, _)
ReplaceFirstOnly(s, p, r, i) ==
    IF i > Len(s) THEN << >>
    ELSE IF MatchAt(s, p, i)
         THEN r \o SubSeq(s, i + Len(p), Len(s))
         ELSE <<s[i]>> \o ReplaceFirstOnly(s, p, r, i + 1)

RECURSIVE ReplaceFrom(_, _, _, _)
ReplaceFrom(s, p, r, i) ==
    IF i > Len(s) THEN << >>
    ELSE IF MatchAt(s, p, i) THEN r \o ReplaceFrom(s, p, r, i + Len(p))
    ELSE <<s[i]>> \o ReplaceFrom(s, p, r, i + 1)

\* content.replace(old, new): every non-overlapping occurrence, left to right
Replace(s, p, r) == ReplaceFrom(s, p, r, 1)

\* The value of a one-element set: binds an intermediate result, as an
\* assignment to a local variable does.
Only(S) == CHOOSE x \in S : TRUE

RECURSIVE Concat(_)
Concat(ss) == IF ss = << >> THEN << >> ELSE Head(ss) \o Concat(Tail(ss))

(***************************************************************************)
(* update_xcode_paths.py: the mapping tables, in dict insertion order.     *)
(***************************************************************************)
PATH_MAPPINGS == <<
    [old |-> <<"Models/", "Jazz", "ChordDatabase.swift">>,
     new |-> <<"Core/Databases/", "ChordDatabase.swift">>],
    [old |-> <<"Models/", "Jazz", "ScaleDatabase.swift">>,
     new |-> <<"Core/Databases/", "ScaleDatabase.swift">>],
    [old |-> <<"Models/", "IntervalDatabase.swift">>,
     new |-> <<"Core/Databases/", "IntervalDatabase.swift">>],
    [old |-> <<"Models/", "ProgressionDatabase.swift">>,
     new |-> <<"Core/Databases/", "CadenceDatabase.swift">>],
    [old |-> <<"Models/", "CurriculumDatabase.swift">>,
     new |-> <<"Core/Databases/", "CurriculumDatabase.swift">>],
    [old |-> <<"Helpers/", "AudioManager.swift">>,
     new |-> <<"Core/Services/", "AudioManager.swift">>],
    [old |-> <<"Models/", "SpacedRepetition.swift">>,
     new |-> <<"Core/Services/", "SpacedRepetitionStore.swift">>],
    [old |-> <<"Models/", "CurriculumManager.swift">>,
     new |-> <<"Core/Services/", "CurriculumManager.swift">>],
    [old |-> <<"Models/", "SettingsManager.swift">>,
     new |-> <<"Core/Services/", "SettingsManager.swift">>] >>

FILENAME_MAPPINGS == <<
    [old |-> <<"Jazz", "ChordDatabase.swift">>, new |-> <<"ChordDatabase.swift">>],
    [old |-> <<"Jazz", "ScaleDatabase.swift">>, new |-> <<"ScaleDatabase.swift">>],
    [old |-> <<"ProgressionDatabase.swift">>, new |-> <<"CadenceDatabase.swift">>],
    [old |-> <<"SpacedRepetition.swift">>, new |-> <<"SpacedRepetitionStore.swift">>] >>

PathKeys == 1..Len(PATH_MAPPINGS)
NameKeys == 1..Len(FILENAME_MAPPINGS)

\* f'"{old_path}"'
Quoted(p) == <<"\"">> \o p \o <<"\"">>
\* f'path = {old_name};'
PathAttr(n) == <<"path = ">> \o n \o <<";">>
\* f'name = {old_name};'
NameAttr(n) == <<"name = ">> \o n \o <<";">>

\* A guarded replacement that counts one change however often old occurs.
ReplaceStepCountsOnce(st, old, new) ==
    IF Contains(st.content, old)
    THEN [content |-> Replace(st.content, old, new),
          changes |-> st.changes + 1]
    ELSE st

\* One guarded replacement: if old in content: count; replace; changes += count
ReplaceStep(st, old, new) ==
    IF Contains(st.content, old)
    THEN [content |-> Replace(st.content, old, new),
          changes |-> st.changes + Count(st.content, old)]
    ELSE st

\* A pass over the bare paths that leaves the paths in double quotes alone.
RECURSIVE ReplaceBareFrom(_, _, _, _)
ReplaceBareFrom(s, p, r, i) ==
    IF i > Len(s) THEN << >>
    ELSE IF MatchAt(s, Quoted(p), i)
         THEN Quoted(p) \o ReplaceBareFrom(s, p, r, i + Len(p) + 2)
    ELSE IF MatchAt(s, p, i) THEN r \o ReplaceBareFrom(s, p, r, i + Len(p))
    ELSE <<s[i]>> \o ReplaceBareFrom(s, p, r, i + 1)

RECURSIVE FullPathPassBareOnly(_, _)
FullPathPassBareOnly(st, k) ==
    IF k > Len(PATH_MAPPINGS) THEN st
    ELSE Only({FullPathPassBareOnly(nxt, k + 1) : nxt \in
           {[content |-> ReplaceBareFrom(st.content, PATH_MAPPINGS[k].old,
                                         PATH_MAPPINGS[k].new, 1),
             changes |-> st.changes + Count(st.content, PATH_MAPPINGS[k].old)
                                    - Count(st.content, Quoted(PATH_MAPPINGS[k].old))]}})

\* for old_path, new_path in PATH_MAPPINGS.items(): full paths
RECURSIVE FullPathPass(_, _)
FullPathPass(st, k) ==
    IF k > Len(PATH_MAPPINGS) THEN st
    ELSE Only({FullPathPass(nxt, k + 1) : nxt \in
           {ReplaceStep(st, PATH_MAPPINGS[k].old, PATH_MAPPINGS[k].new)}})

\* for old_path, new_path in PATH_MAPPINGS.items(): quoted paths
RECURSIVE QuotedPathPass(_, _)
QuotedPathPass(st, k) ==
    IF k > Len(PATH_MAPPINGS) THEN st
    ELSE Only({QuotedPathPass(nxt, k + 1) : nxt \in
           {ReplaceStep(st, Quoted(PATH_MAPPINGS[k].old),
                            Quoted(PATH_MAPPINGS[k].new))}})

\* A pass over the attributes that forgets the name = ...; form.
RECURSIVE AttributePassPathOnly(_, _)
AttributePassPathOnly(st, k) ==
    IF k > Len(FILENAME_MAPPINGS) THEN st
    ELSE Only({AttributePassPathOnly(nxt, k + 1) : nxt \in
           {ReplaceStep(st, PathAttr(FILENAME_MAPPINGS[k].old),
                            PathAttr(FILENAME_MAPPINGS[k].new))}})

\* for old_name, new_name in FILENAME_MAPPINGS.items(): path = ...; then name = ...;
RECURSIVE AttributePass(_, _)
AttributePass(st, k) ==
    IF k > Len(FILENAME_MAPPINGS) THEN st
    ELSE Only({AttributePass(nxt, k + 1) : nxt \in
           {ReplaceStep(mid, NameAttr(FILENAME_MAPPINGS[k].old),
                             NameAttr(FILENAME_MAPPINGS[k].new)) : mid \in
              {ReplaceStep(st, PathAttr(FILENAME_MAPPINGS[k].old),
                               PathAttr(FILENAME_MAPPINGS[k].new))}}})

\* The result of update_project_file's three passes: the text, the total
\* change count and what each pass added to it, from the states after the
\* pass over the full paths (s1), the quoted paths (s2) and the attributes (s3).
PassTotals(s1, s2, s3) ==
    [content |-> s3.content,
     changes_made |-> s3.changes,
     full |-> s1.changes,
     quoted |-> s2.changes - s1.changes,
     attrs |-> s3.changes - s2.changes]

AfterQuotedPass(s1, s2) ==
    Only({PassTotals(s1, s2, s3) : s3 \in {AttributePass(s2, 1)}})

AfterFullPass(s1) ==
    Only({AfterQuotedPass(s1, s2) : s2 \in {QuotedPathPass(s1, 1)}})

\* The three passes of update_project_file on the text read from the file,
\* starting with changes_made = 0.
Rewrite(text) ==
    Only({AfterFullPass(s1) : s1 \in
            {FullPathPass([content |-> text, changes |-> 0], 1)}})

\* What a failed open(filepath, 'w') / f.write leaves on disk: the open failed
\* (file untouched) or the file was truncated and nothing reached it.
FailedWrite(before) == {before, << >>}

RewriterEntry(before, r, readOK, wrote, writeOK, code) ==
    [tool |-> "rewriter", before |-> before, content |-> r.content,
     changes_made |-> r.changes_made, full |-> r.full, quoted |-> r.quoted,
     attrs |-> r.attrs, readOK |-> readOK, wrote |-> wrote, writeOK |-> writeOK,
     exit |-> code]

\* open(filepath, 'r') raises: except Exception -> print, sys.exit(1)
RewriterReadError ==
    /\ Len(log) < MaxRuns
    /\ log' = Append(log, RewriterEntry(disk,
                 [content |-> << >>, changes_made |-> 0, full |-> 0, quoted |-> 0,
                  attrs |-> 0], FALSE, FALSE, FALSE, 1))
    /\ UNCHANGED disk

\* A run that writes the text back whether or not anything changed.
RewriterRunAlwaysWrites ==
    /\ Len(log) < MaxRuns
    /\ \E r \in {Rewrite(disk)} :
         \E writeOK \in BOOLEAN :
           /\ disk' \in (IF writeOK THEN {r.content} ELSE FailedWrite(disk))
           /\ log' = Append(log, RewriterEntry(disk, r, TRUE, TRUE, writeOK,
                        IF writeOK /\ r.changes_made > 0 THEN 0 ELSE 1))

\* A run that exits with 0 whenever nothing raised: sys.exit(0) for sys.exit(0 if success else 1).
RewriterRunExitsZero ==
    /\ Len(log) < MaxRuns
    /\ \E r \in {Rewrite(disk)} :
         IF r.changes_made > 0
         THEN \E writeOK \in BOOLEAN :
                /\ disk' \in (IF writeOK THEN {r.content} ELSE FailedWrite(disk))
                /\ log' = Append(log, RewriterEntry(disk, r, TRUE, TRUE, writeOK,
                                                    IF writeOK THEN 0 ELSE 1))
         ELSE /\ log' = Append(log, RewriterEntry(disk, r, TRUE, FALSE, FALSE, 0))
              /\ UNCHANGED disk

\* The file is read: the three passes, then
\*   changes_made > 0: write; return True -> sys.exit(0), or the write raises
\*                     and except Exception -> sys.exit(1)
\*   otherwise:        no write; return False -> sys.exit(1)
RewriterRun ==
    /\ Len(log) < MaxRuns
    /\ \E r \in {Rewrite(disk)} :
         IF r.changes_made > 0
         THEN \E writeOK \in BOOLEAN :
                /\ disk' \in (IF writeOK THEN {r.content} ELSE FailedWrite(disk))
                /\ log' = Append(log, RewriterEntry(disk, r, TRUE, TRUE, writeOK,
                                                    IF writeOK THEN 0 ELSE 1))
         ELSE /\ log' = Append(log, RewriterEntry(disk, r, TRUE, FALSE, FALSE, 1))
              /\ UNCHANGED disk

(***************************************************************************)
(* Input texts of the Rewriter: up to MaxItems pieces about one mapped     *)
(* file k: its old path, bare or quoted, the path and name attributes of   *)
(* its file name, and the old path of the next table entry.                *)
(***************************************************************************)
\* The file name of old path k: the path without its directory.
BaseName(k) == Tail(PATH_MAPPINGS[k].old)

NextKey(k) == (k % Len(PATH_MAPPINGS)) + 1

RewriterItems(k) ==
    {PATH_MAPPINGS[k].old, Quoted(PATH_MAPPINGS[k].old),
     PathAttr(BaseName(k)), NameAttr(BaseName(k)),
     PATH_MAPPINGS[NextKey(k)].old}

TextsOver(items, n) == UNION {{Concat(ss) : ss \in [1..m -> items]} : m \in 0..n}

InitRewriter ==
    /\ \E k \in PathKeys : disk \in TextsOver(RewriterItems(k), MaxItems)
    /\ log = << >>

NextRewriter ==
    \/ RewriterReadError
    \/ RewriterRun

SpecRewriter == InitRewriter /\ [][NextRewriter]_vars

(***************************************************************************)
(* Properties of the Path Rewriter, over the runs recorded in log.         *)
(***************************************************************************)
\* The properties below are stated of the last run of the log and of the file
\* it left; every earlier run was the last run of an earlier state.
Ran == log # << >>
Last == log[Len(log)]
Prev == log[Len(log) - 1]

\* The run raised while reading or writing the file.
Raised(e) == ~e.readOK \/ (e.wrote /\ ~e.writeOK)

OldForms ==
    {PATH_MAPPINGS[k].old : k \in PathKeys}
    \cup {Quoted(PATH_MAPPINGS[k].old) : k \in PathKeys}
    \cup {PathAttr(FILENAME_MAPPINGS[k].old) : k \in NameKeys}
    \cup {NameAttr(FILENAME_MAPPINGS[k].old) : k \in NameKeys}

\* No path mapping, quoted path mapping or path=/name= attribute matches t.
NoMatch(t) ==
    /\ \A k \in PathKeys :
          /\ ~Contains(t, PATH_MAPPINGS[k].old)
          /\ ~Contains(t, Quoted(PATH_MAPPINGS[k].old))
    /\ \A k \in NameKeys :
          /\ ~Contains(t, PathAttr(FILENAME_MAPPINGS[k].old))
          /\ ~Contains(t, NameAttr(FILENAME_MAPPINGS[k].old))

\* C1: the Rewriter writes the file back exactly when the total change count
\* is greater than 0, and what it writes is the rewritten text; when none of
\* the patterns matches the input, the file after the run is the file before
\* the run, nothing was written and the run ends with status 1.
C1_WriteGating ==
    Ran =>
        LET e == Last IN
        e.readOK =>
            /\ e.wrote <=> e.changes_made > 0
            /\ (e.wrote /\ e.writeOK) => disk = e.content
            /\ ~e.wrote => disk = e.before
            /\ (e.wrote \/ disk # e.before \/ e.exit # 1) => ~NoMatch(e.before)

C1_Witness ==
    /\ Len(log) = 2
    /\ log[1].readOK /\ log[1].wrote /\ log[1].writeOK
    /\ log[1].before # log[1].content
    /\ log[2].readOK /\ NoMatch(log[2].before) /\ ~log[2].wrote
    /\ log[2].before # << >>

\* C2: a run exits with 0 if a replacement occurred and nothing raised, with
\* 1 if no replacement occurred, and with 1 if reading or writing raised, also
\* when the write fails after replacements were made in memory.
C2_ExitStatus ==
    Ran =>
        LET e == Last IN
        /\ Raised(e) => e.exit = 1
        /\ (~Raised(e) /\ e.content # e.before) => e.exit = 0
        /\ (~Raised(e) /\ e.content = e.before) => e.exit = 1
        /\ e.readOK => (e.content # e.before <=> e.changes_made > 0)

C2_Witness ==
    /\ Len(log) = 2
    /\ log[1].readOK /\ log[1].wrote /\ ~log[1].writeOK
    /\ log[1].content # log[1].before /\ log[1].exit = 1
    /\ log[2].exit = 0

\* C3: after a run that read the file, none of the old forms is left in the
\* rewritten text; and when a run that completed without raising is followed
\* by a run that reads the file, the second run counts zero changes, does not
\* write and exits with 1.
C3_Idempotent ==
    /\ (Ran /\ Last.readOK) => NoMatch(Last.content)
    /\ (Len(log) > 1 /\ ~Raised(Prev) /\ Last.readOK) =>
          /\ Last.changes_made = 0
          /\ ~Last.wrote
          /\ Last.exit = 1
          /\ disk = Last.before
          /\ disk = Prev.content

C3_Witness ==
    /\ Len(log) = 2
    /\ log[1].exit = 0 /\ log[1].changes_made > 1
    /\ log[2].readOK /\ log[2].changes_made = 0 /\ log[2].exit = 1
    /\ Contains(log[1].before, NameAttr(FILENAME_MAPPINGS[4].old))

\* C4: for each mapping entry, if the old form is in the input (the bare old
\* path, the quoted old path, path = old name; or name = old name;) then in
\* the rewritten text the old form is gone and the new form stands where it
\* stood, once for each occurrence; a run that exits with 0 leaves that text
\* on disk.
Rewritten(e, old, new) ==
    Contains(e.before, old) =>
        /\ ~Contains(e.content, old)
        /\ Contains(e.content, new)
        /\ Count(e.content, new) = Count(e.before, new) + Count(e.before, old)

C4_Complete ==
    Ran =>
        LET e == Last IN
        e.readOK =>
            /\ \A k \in PathKeys :
                  /\ Rewritten(e, PATH_MAPPINGS[k].old, PATH_MAPPINGS[k].new)
                  /\ Rewritten(e, Quoted(PATH_MAPPINGS[k].old),
                                  Quoted(PATH_MAPPINGS[k].new))
            /\ \A k \in NameKeys :
                  /\ Rewritten(e, PathAttr(FILENAME_MAPPINGS[k].old),
                                  PathAttr(FILENAME_MAPPINGS[k].new))
                  /\ Rewritten(e, NameAttr(FILENAME_MAPPINGS[k].old),
                                  NameAttr(FILENAME_MAPPINGS[k].new))
            /\ e.exit = 0 => disk = e.content

C4_Witness ==
    /\ Ran
    /\ Last.exit = 0
    /\ Contains(Last.before, Quoted(PATH_MAPPINGS[7].old))
    /\ Contains(Last.before, NameAttr(FILENAME_MAPPINGS[4].old))
    /\ Contains(Last.before, PATH_MAPPINGS[8].old)
    /\ Contains(disk, NameAttr(FILENAME_MAPPINGS[4].new))

\* The text of the scenario: Models/JazzChordDatabase.swift once bare and once
\* in quotes, path = JazzChordDatabase.swift; once, and no other old form.
Scenario(t) ==
    /\ Count(t, PATH_MAPPINGS[1].old) = 2
    /\ Count(t, Quoted(PATH_MAPPINGS[1].old)) = 1
    /\ Count(t, PathAttr(FILENAME_MAPPINGS[1].old)) = 1
    /\ \A f \in OldForms :
          f \notin {PATH_MAPPINGS[1].old, Quoted(PATH_MAPPINGS[1].old),
                    PathAttr(FILENAME_MAPPINGS[1].old)} => ~Contains(t, f)

\* C5: on the scenario text one run leaves Core/Databases/ChordDatabase.swift
\* once bare and once in quotes and path = ChordDatabase.swift; once, and the
\* total change count of the three passes is exactly 3.
C5_ScenarioCount ==
    Ran =>
        LET e == Last IN
        (e.readOK /\ Scenario(e.before)) =>
            /\ e.changes_made = 3
            /\ e.full + e.quoted + e.attrs = 3
            /\ Count(e.content, PATH_MAPPINGS[1].new) = 2
            /\ Count(e.content, Quoted(PATH_MAPPINGS[1].new)) = 1
            /\ Count(e.content, PathAttr(FILENAME_MAPPINGS[1].new)) = 1
            /\ NoMatch(e.content)

C5_Witness ==
    /\ Len(log) = 1
    /\ log[1].exit = 0
    /\ Scenario(log[1].before)
    /\ disk = log[1].content

BeginBuildFile == "/* Begin PBXBuildFile section */\n"
BeginFileRef == "/* Begin PBXFileReference section */\n"
SessionRef == "94QKPRS22F30000000000004 /* QuickPracticeSession.swift */,\n"
SessionSource == "94QKPRS12F30000000000003 /* QuickPracticeSession.swift in Sources */,\n"
QuizGameTestsSource == "/* QuizGameTests.swift in Sources */,\n"
HomeHeader == "/* Home */ = {"
GroupIsa == "isa = PBXGroup; "
ChildrenHeader == "children = (\n"
CloseBrace == "};\n"
\* The object ids in front of the Home group of the app and of the tests.
AppHomeId == "APPHOMEGROUPID "
TestsHomeId == "TESTSHOMEGROUPID "

\* The lines the Registrar inserts.
VmBuildLine == "\t\t50D081DD15174045962DE9EF /* QuickPracticeViewModel.swift in Sources */ = {isa = PBXBuildFile; fileRef = 8BF493D838B94315B19952FC /* QuickPracticeViewModel.swift */; };\n"
TestBuildLine == "\t\tBCB4F13E032C46C7BE6BFC04 /* QuickPracticeViewModelTests.swift in Sources */ = {isa = PBXBuildFile; fileRef = 7F9A7D96DD8847438527768A /* QuickPracticeViewModelTests.swift */; };\n"
VmRefLine == "\t\t8BF493D838B94315B19952FC /* QuickPracticeViewModel.swift */ = {isa = PBXFileReference; lastKnownFileType = sourcecode.swift; path = QuickPracticeViewModel.swift; sourceTree = \"<group>\"; };\n"
TestRefLine == "\t\t7F9A7D96DD8847438527768A /* QuickPracticeViewModelTests.swift */ = {isa = PBXFileReference; lastKnownFileType = sourcecode.swift; path = QuickPracticeViewModelTests.swift; sourceTree = \"<group>\"; };\n"
VmChildLine == "\t\t\t\t8BF493D838B94315B19952FC /* QuickPracticeViewModel.swift */,\n"
TestChildLine == "\t\t\t\t7F9A7D96DD8847438527768A /* QuickPracticeViewModelTests.swift */,\n"
VmSourceLine == "\t\t\t\t50D081DD15174045962DE9EF /* QuickPracticeViewModel.swift in Sources */,\n"
TestSourceLine == "\t\t\t\tBCB4F13E032C46C7BE6BFC04 /* QuickPracticeViewModelTests.swift in Sources */,\n"

build_file_pattern == <<BeginBuildFile>>
build_file_addition == <<VmBuildLine, TestBuildLine>>
file_ref_pattern == <<BeginFileRef>>
file_ref_addition == <<VmRefLine, TestRefLine>>
home_group_pattern == <<SessionRef>>
home_group_addition == <<VmChildLine>>
test_home_addition == <<TestChildLine>>
sources_pattern == <<SessionSource>>
sources_addition == <<VmSourceLine>>
test_sources_pattern == <<QuizGameTestsSource>>
test_sources_addition == <<TestSourceLine>>

\* The tokens that hold a '}'.
HasCloseBrace(tok) ==
    tok \in {CloseBrace, VmBuildLine, TestBuildLine, VmRefLine, TestRefLine}

\* An insertion in front of the token at j: addition + '\1' for '\1' + addition.
InsertInFront(s, j, add) == SubSeq(s, 1, j - 1) \o add \o SubSeq(s, j, Len(s))

InsertAfter(s, j, add) == SubSeq(s, 1, j) \o add \o SubSeq(s, j + 1, Len(s))

\* The first occurrence of literal p at or after position i, or 0.
FindFrom(s, p, i) ==
    IF \E j \in i..Len(s) : MatchAt(s, p, j)
    THEN CHOOSE j \in i..Len(s) :
             MatchAt(s, p, j) /\ \A h \in i..(j - 1) : ~MatchAt(s, p, h)
    ELSE 0

\* re.sub(r'(p)', '\1' + add, s, count=1) for a literal p
InsertAtFound(s, i, p, add) ==
    IF i = 0 THEN s ELSE InsertAfter(s, i + Len(p) - 1, add)

\* A substitution that is skipped when the addition is in the text already.
SubOnceIfAbsent(s, p, add) ==
    IF Contains(s, add) THEN s
    ELSE Only({InsertAtFound(s, i, p, add) : i \in {FindFrom(s, p, 1)}})

SubOnce(s, p, add) == Only({InsertAtFound(s, i, p, add) : i \in {FindFrom(s, p, 1)}})

\* test_home_pattern = /\* Home \*/ = \{[^}]+children = \(\n  with the Home
\* header at position i: the children headers at which a match can end.
\* [^}]+ takes at least one character, so the header is not directly behind
\* the Home header, and no token between the two holds a '}'.
ScanHome(s, i) ==
    {j \in (i + 2)..Len(s) :
        /\ s[j] = ChildrenHeader
        /\ \A h \in (i + 1)..(j - 1) : ~HasCloseBrace(s[h])}

\* [^}]+ is greedy: the match ends at the last of these headers.
LastOf(js) == IF js = {} THEN 0 ELSE CHOOSE j \in js : \A h \in js : h <= j

\* The end of the match of test_home_pattern that starts at position i, or 0.
TestHomeEnd(s, i) ==
    IF i > Len(s) THEN 0
    ELSE IF s[i] # HomeHeader THEN 0
    ELSE LastOf(ScanHome(s, i))

\* re.search(test_home_pattern, s) from position i: <<start, end>> of the
\* leftmost match, or <<0, 0>>.
TestHomeTry(s, i, starts) ==
    IF starts = {} THEN <<0, 0>>
    ELSE Only({<<k, TestHomeEnd(s, k)>> : k \in
                 {CHOOSE k \in starts : \A h \in starts : k <= h}})

TestHomeSearch(s, i) ==
    TestHomeTry(s, i, {k \in i..Len(s) : TestHomeEnd(s, k) # 0})

\* if re.search(test_home_pattern, content): re.sub(..., count=1)
InsertAtMatch(s, m, add) == IF m[2] = 0 THEN s ELSE InsertAfter(s, m[2], add)

SubTestHome(s) ==
    Only({InsertAtMatch(s, m, test_home_addition) : m \in {TestHomeSearch(s, 1)}})

\* One substitution of the script: the text after it, and the names of the
\* substitutions that replaced something so far.
Substituted(st, name, text) ==
    [content |-> text,
     hits |-> IF text # st.content THEN st.hits \cup {name} ELSE st.hits]

\* content = re.sub(pattern, addition, content, count=1)
SubStep(st, name, p, add) ==
    Only({Substituted(st, name, text) : text \in {SubOnce(st.content, p, add)}})

\* if re.search(test_home_pattern, content): content = re.sub(...)
TestHomeStep(st) ==
    Only({Substituted(st, "test_home", text) : text \in {SubTestHome(st.content)}})

\* The six substitutions of the script, in the order of the script.
AddBuildFiles(text) ==
    SubStep([content |-> text, hits |-> {}], "build_file",
            build_file_pattern, build_file_addition)
AddFileRefs(text) ==
    Only({SubStep(st, "file_ref", file_ref_pattern, file_ref_addition) :
            st \in {AddBuildFiles(text)}})
AddToHomeGroup(text) ==
    Only({SubStep(st, "home_group", home_group_pattern, home_group_addition) :
            st \in {AddFileRefs(text)}})
AddToTestHomeGroup(text) ==
    Only({TestHomeStep(st) : st \in {AddToHomeGroup(text)}})
AddToSources(text) ==
    Only({SubStep(st, "sources", sources_pattern, sources_addition) :
            st \in {AddToTestHomeGroup(text)}})
AddToTestSources(text) ==
    Only({SubStep(st, "test_sources", test_sources_pattern, test_sources_addition) :
            st \in {AddToSources(text)}})

\* A script that gives up at the first pattern it does not find.
RegisterStopsAtMissing(text) ==
    IF Contains(text, build_file_pattern)
    THEN AddToTestSources(text)
    ELSE [content |-> text, hits |-> {}]

Register(text) == AddToTestSources(text)

\* A run that raised leaves no text behind: the process is gone.
RegistrarEntry(before, r, code) ==
    [tool |-> "registrar", before |-> before, content |-> r.content,
     hits |-> r.hits, exit |-> code]

NothingDone == [content |-> << >>, hits |-> {}]

\* open(..., 'r') raises: nothing catches it, the interpreter exits with 1
RegistrarReadError ==
    /\ Len(log) < MaxRuns
    /\ log' = Append(log, RegistrarEntry(disk, NothingDone, 1))
    /\ UNCHANGED disk

\* The file is read, the six substitutions are made and the text is written
\* back whatever they did; the two messages are printed and the script ends.
RegistrarRun ==
    /\ Len(log) < MaxRuns
    /\ \E r \in {Register(disk)} :
         /\ disk' = r.content
         /\ log' = Append(log, RegistrarEntry(disk, r, 0))

\* open(..., 'w') or f.write raises: nothing catches it either
RegistrarWriteError ==
    /\ Len(log) < MaxRuns
    /\ disk' \in FailedWrite(disk)
    /\ log' = Append(log, RegistrarEntry(disk, NothingDone, 1))

(***************************************************************************)
(* Input texts of the Registrar: up to MaxRegItems pieces, each a token    *)
(* the script looks for, a Home header, a children header, or the Home     *)
(* group of the app or of the tests (with no children yet).                *)
(***************************************************************************)
AppHomeGroup == <<AppHomeId, HomeHeader, GroupIsa, ChildrenHeader, CloseBrace>>
TestsHomeGroup == <<TestsHomeId, HomeHeader, GroupIsa, ChildrenHeader, CloseBrace>>

RegistrarItems ==
    {<<BeginBuildFile>>, <<BeginFileRef>>, <<SessionRef>>, <<SessionSource>>,
     <<QuizGameTestsSource>>, <<HomeHeader>>, <<ChildrenHeader>>,
     AppHomeGroup, TestsHomeGroup}

InitRegistrar ==
    /\ disk \in TextsOver(RegistrarItems, MaxRegItems)
    /\ log = << >>

NextRegistrar ==
    \/ RegistrarReadError
    \/ RegistrarRun
    \/ RegistrarWriteError

SpecRegistrar == InitRegistrar /\ [][NextRegistrar]_vars

(***************************************************************************)
(* Properties of the Registrar, over the runs recorded in log.             *)
(***************************************************************************)
Literal == {"build_file", "file_ref", "home_group", "sources", "test_sources"}
Anchors == Literal \cup {"test_home"}

PatternOf(a) ==
    CASE a = "build_file" -> build_file_pattern
      [] a = "file_ref" -> file_ref_pattern
      [] a = "home_group" -> home_group_pattern
      [] a = "sources" -> sources_pattern
      [] a = "test_sources" -> test_sources_pattern

AdditionOf(a) ==
    CASE a = "build_file" -> build_file_addition
      [] a = "file_ref" -> file_ref_addition
      [] a = "home_group" -> home_group_addition
      [] a = "test_home" -> test_home_addition
      [] a = "sources" -> sources_addition
      [] a = "test_sources" -> test_sources_addition

\* The matches of test_home_pattern in t from position i on, as re.findall
\* counts them.
RECURSIVE TestHomeCount(_, _)
TestHomeCountOn(t, m) == IF m[2] = 0 THEN 0 ELSE 1 + TestHomeCount(t, m[2] + 1)

TestHomeCount(t, i) == Only({TestHomeCountOn(t, m) : m \in {TestHomeSearch(t, i)}})

\* How often the pattern of anchor a matches t.
Occurrences(a, t) ==
    IF a = "test_home" THEN TestHomeCount(t, 1) ELSE Count(t, PatternOf(a))

\* Where the first match of anchor a ends in t, or 0.
EndOfFound(i, p) == IF i = 0 THEN 0 ELSE i + Len(p) - 1

AnchorEnd(a, t) ==
    IF a = "test_home" THEN TestHomeSearch(t, 1)[2]
    ELSE EndOfFound(FindFrom(t, PatternOf(a), 1), PatternOf(a))

\* The records of anchor a that run e added.
Added(a, e) == Count(e.content, AdditionOf(a)) - Count(e.before, AdditionOf(a))

\* In the text run e produced, the anchor is there as often as before and
\* exactly one new record of a stands directly behind its first match.
StandsBehind(t, add, end) == end # 0 /\ MatchAt(t, add, end + 1)

InsertedOnce(a, e) ==
    /\ Added(a, e) = 1
    /\ Occurrences(a, e.content) = Occurrences(a, e.before)
    /\ StandsBehind(e.content, AdditionOf(a), AnchorEnd(a, e.content))

\* A section header of anchors (a) or (b) stands between a Home header and a
\* children header with no '}' between the two.
HeaderInsideHome(t) ==
    \E h \in 1..Len(t) :
        /\ t[h] \in {BeginBuildFile, BeginFileRef}
        /\ \E i \in 1..(h - 1) :
              /\ t[i] = HomeHeader
              /\ \E j \in (h + 1)..Len(t) :
                    /\ t[j] = ChildrenHeader
                    /\ \A x \in (i + 1)..j : ~HasCloseBrace(t[x])

C8_Duplicates ==
    (Len(log) > 1 /\ Prev.exit = 0 /\ Last.exit = 0) =>
        \A a \in Anchors :
            Added(a, Prev) = 1 =>
                /\ Added(a, Last) = 1
                /\ a \in Last.hits
                /\ StandsBehind(disk, AdditionOf(a) \o AdditionOf(a), AnchorEnd(a, disk))
                /\ Count(disk, AdditionOf(a)) = Count(Prev.before, AdditionOf(a)) + 2

C8_Witness ==
    /\ Len(log) = 2
    /\ log[1].exit = 0 /\ log[2].exit = 0
    /\ Added("test_home", log[1]) = 1
    /\ Added("sources", log[1]) = 1
    /\ Count(disk, test_home_addition) = 2
    /\ Count(disk, sources_addition) = 2

\* The object id of the Home group that holds position p of t: the token in
\* front of the last Home header before p that no '}' separates from p.
Owner(t, p) ==
    LET hs == {h \in 2..(p - 1) :
                  /\ t[h] = HomeHeader
                  /\ \A x \in h..p : ~HasCloseBrace(t[x])}
    IN IF hs = {} THEN "none"
       ELSE t[(CHOOSE h \in hs : \A g \in hs : g <= h) - 1]

\* C10: when the input holds the Home group of the tests, the run puts the
\* QuickPracticeViewModelTests.swift reference into the children of that
\* group and into no other group, also when another Home group comes first.
C10_TestGroupTarget ==
    Ran =>
        LET e == Last IN
        (e.exit = 0 /\ Contains(e.before, TestsHomeGroup)
                  /\ ~Contains(e.before, test_home_addition)) =>
            /\ \E p \in 1..Len(e.content) :
                  e.content[p] = TestChildLine /\ Owner(e.content, p) = TestsHomeId
            /\ \A p \in 1..Len(e.content) :
                  e.content[p] = TestChildLine => Owner(e.content, p) = TestsHomeId

====
